---- MODULE Spec2Model ----
(***************************************************************************)
(* docnsrt: the file-mutation pipeline.                                    *)
(*                                                                         *)
(* Text is modelled at character level: a str is a sequence of one-        *)
(* character strings, a file is the str of its content, and a list of      *)
(* lines is a sequence of strs.  The syntax trees of tree-sitter are       *)
(* abstracted to a line grammar in which the first non-blank character of  *)
(* a row names the node that starts on it:                                 *)
(*    "d"  a Python function_definition (its signature row)                *)
(*    "q"  a row of a Python string literal (a docstring)                  *)
(*    "m"  a C# method_declaration (its signature row)                     *)
(*    "c"  a C# line comment                                               *)
(*    anything else: other code.                                           *)
(***************************************************************************)
EXTENDS Integers, Sequences, FiniteSets, TLC

Min(a, b) == IF a < b THEN a ELSE b

Max(a, b) == IF a > b THEN a ELSE b

RECURSIVE SumLen(_, _)
\* sum(len(x.new_docstring.lines) for x in docs[:n])
SumLen(docs, n) ==
    IF n = 0 THEN 0 ELSE SumLen(docs, n - 1) + Len(docs[n].new_docstring.lines)

-----------------------------------------------------------------------------
(* Python str and list primitives used by the program                      *)

\* " " * n  (the empty str for n <= 0)
Spaces(n) == [i \in 1..n |-> " "]

RECURSIVE LeadingSpaces(_)
\* len(line_text) - len(line_text.lstrip(" "))
LeadingSpaces(t) ==
    IF t # <<>> /\ Head(t) = " " THEN 1 + LeadingSpaces(Tail(t)) ELSE 0

\* the positions of the line terminators of a str
NewlinePositions(s) == {i \in 1..Len(s) : s[i] = "\n"}

\* the position of the j-th line terminator (0 for j = 0)
NthNewline(s, j) ==
    IF j = 0 THEN 0
    ELSE CHOOSE p \in NewlinePositions(s) :
             Cardinality({q \in NewlinePositions(s) : q <= p}) = j

\* the rows of a str: every row keeps its "\n"; only the last row can lack
\* one.
SplitRows(s) ==
    LET n    == Cardinality(NewlinePositions(s))
        tail == IF Len(s) > 0 /\ s[Len(s)] # "\n" THEN 1 ELSE 0
    IN  [j \in 1..(n + tail) |->
            SubSeq(s, NthNewline(s, j - 1) + 1,
                   IF j <= n THEN NthNewline(s, j) ELSE Len(s))]

RECURSIVE Concat(_)
\* "".join(ls)
Concat(ls) == IF ls = <<>> THEN <<>> ELSE Head(ls) \o Concat(Tail(ls))

\* reading a file opened in text mode with newline=None: "\r\n" and a lone
\* "\r" are given to the program as "\n"
UniversalNewlines(s) ==
    LET t == [i \in 1..Len(s) |->
                 IF s[i] = "\r" THEN "\n"
                 ELSE IF s[i] = "\n" /\ i > 1 /\ s[i - 1] = "\r" THEN ""
                 ELSE s[i]]
    IN  SelectSeq(t, LAMBDA c : c # "")

\* os.linesep where the program runs (POSIX)
os_linesep == "\n"

\* writing to a file opened in text mode with newline=None: every "\n" is
\* written as os.linesep
TranslateNewlines(s) ==
    [i \in 1..Len(s) |-> IF s[i] = "\n" THEN os_linesep ELSE s[i]]

\* f.readlines() and iteration over a file opened in text mode
readlines(s) == SplitRows(UniversalNewlines(s))

\* f.writelines(lines) on an empty file opened in text mode: the strs one
\* after the other, no terminator is added
writelines(ls) == TranslateNewlines(Concat(ls))

\* a slice bound of a list of length n (Python clamps, negative counts from
\* the end)
SliceIndex(i, n) == IF i < 0 THEN Max(0, i + n) ELSE Min(i, n)

\* del lines[a:b]
DelSlice(lines, a, b) ==
    LET n  == Len(lines)
        lo == SliceIndex(a, n)
        hi == SliceIndex(b, n)
    IN  IF lo >= hi THEN lines
        ELSE SubSeq(lines, 1, lo) \o SubSeq(lines, hi + 1, n)

\* lines[a:a] = new
InsertSlice(lines, a, new) ==
    LET n  == Len(lines)
        lo == SliceIndex(a, n)
    IN  SubSeq(lines, 1, lo) \o new \o SubSeq(lines, lo + 1, n)

\* the str without its final "\n", as str.splitlines() gives a row
StripNL(t) ==
    IF t # <<>> /\ t[Len(t)] = "\n" THEN SubSeq(t, 1, Len(t) - 1) ELSE t

\* str.splitlines() of a text without "\n": a form feed ends a line too
splitlines(t) ==
    LET ps     == {i \in 1..Len(t) : t[i] = "\f"}
        n      == Cardinality(ps)
        Nth(j) == IF j = 0 THEN 0
                  ELSE IF j > n THEN Len(t) + 1
                  ELSE CHOOSE q \in ps : Cardinality({x \in ps : x <= q}) = j
    IN  [j \in 1..(n + 1) |-> SubSeq(t, Nth(j - 1) + 1, Nth(j) - 1)]

\* the first non-blank character of a row ("" for a blank row)
Mark(t) ==
    LET k == LeadingSpaces(t)
    IN  IF k < Len(t) /\ t[k + 1] # "\n" THEN t[k + 1] ELSE ""

-----------------------------------------------------------------------------
(* models.py                                                               *)

\* Optional[DocstringModel] = None (a record of the same shape that no parser
\* returns, so that TLC can compare it with a docstring)
NoDoc == [lines |-> <<>>, start_line |-> -1]

ABOVE == "above"

BELOW == "below"

INLINE == "inline"

DocstringModel(ls, s) == [lines |-> ls, start_line |-> s]

FunctionContextModel(s, doc) == [start_line |-> s, docstring |-> doc]

FormattedDocstringModel(s, ls, off, loc) ==
    [start_line |-> s, formatted_documentation |-> ls,
     offset_spaces |-> off, docstring_location |-> loc]

\* DocstringPresentationModel (qualified_name identifies the function; the
\* signature and file_path fields are for display only)
DocstringPresentationModel(fc, fmt) ==
    [qualified_name     |-> fc.start_line,
     new_docstring      |-> DocstringModel(fmt.formatted_documentation, fmt.start_line),
     offset_spaces      |-> fmt.offset_spaces,
     existing_docstring |-> fc.docstring,
     docstring_location |-> fmt.docstring_location]

\* DocstringTemplateModel: what the content generator returns
DocstringTemplateModel(sum, params, ret) ==
    [summary |-> sum, parameters |-> params, return_description |-> ret]

-----------------------------------------------------------------------------
(* utils/file_utils.py                                                     *)

\* the number of spaces before the text of row `line` of the file, -1 when
\* the file has no such row
get_line_text_offset_spaces(content, line) ==
    LET ls == readlines(content)
    IN  IF line >= 0 /\ line < Len(ls) THEN LeadingSpaces(ls[line + 1]) ELSE -1

-----------------------------------------------------------------------------
(* parsers: rows are 0-based as tree-sitter's start_point rows, rows[r + 1] *)
(* is row r                                                                *)

Lstrip(t) == SubSeq(t, LeadingSpaces(t) + 1, Len(t))

StartsWith(t, p) == Len(t) >= Len(p) /\ SubSeq(t, 1, Len(p)) = p

EndsWith(t, p) == Len(t) >= Len(p) /\ SubSeq(t, Len(t) - Len(p) + 1, Len(t)) = p

\* the text of the node that starts on row r: no indentation, no terminator
NodeText(rows, r) == Lstrip(StripNL(rows[r + 1]))

Q3 == <<"\"", "\"", "\"">>

\* rows of the function nodes the query captures
FunctionRows(rows, mark) == {r \in 0..(Len(rows) - 1) : Mark(rows[r + 1]) = mark}

\* the row on which the string literal that starts on row r ends, -1 when it
\* is not a triple-quoted string
PyStringEndRow(rows, r) ==
    LET t == NodeText(rows, r)
    IN  IF ~StartsWith(t, Q3) THEN -1
        ELSE IF Len(t) >= 2 * Len(Q3) /\ EndsWith(t, Q3) THEN r
        ELSE LET ends == {e \in (r + 1)..(Len(rows) - 1) :
                             EndsWith(StripNL(rows[e + 1]), Q3)}
             IN  IF ends = {} THEN -1
                 ELSE CHOOSE e \in ends : \A x \in ends : e <= x

\* the row on which the signature that starts on row s ends: the rows that
\* begin with ")" continue it (def f( / ):)
PySignatureEnd(rows, s) ==
    LET cont == {e \in (s + 1)..(Len(rows) - 1) :
                    \A x \in (s + 1)..e : Mark(rows[x + 1]) = ")"}
    IN  IF cont = {} THEN s ELSE CHOOSE e \in cont : \A x \in cont : x <= e

\* PythonParser.get_docstring: the first statement of the body block, when it
\* is a string; lines = comment.splitlines(), start_line = the string's row
PyGetDocstring(rows, s) ==
    LET b == PySignatureEnd(rows, s) + 1
        isBody == b < Len(rows)
                  /\ LeadingSpaces(rows[b + 1]) > LeadingSpaces(rows[s + 1])
        e == IF isBody THEN PyStringEndRow(rows, b) ELSE -1
    IN  IF e < 0 THEN NoDoc
        ELSE DocstringModel(
                 Concat([i \in 1..(e - b + 1) |->
                            splitlines(IF i = 1 THEN NodeText(rows, b)
                                                ELSE StripNL(rows[b + i]))]),
                 b)

\* PythonParser.extract_function_context
PyExtractFunctionContext(rows, s) ==
    FunctionContextModel(s, PyGetDocstring(rows, s))

\* node.prev_sibling: the row of the nearest node before row r, -1 for None
PrevSibling(rows, r) ==
    LET before == {x \in 0..(r - 1) : Mark(rows[x + 1]) # ""}
    IN  IF before = {} THEN -1
        ELSE CHOOSE x \in before : \A y \in before : y <= x

IsComment(rows, r) == r >= 0 /\ Mark(rows[r + 1]) = "/"

RECURSIVE CsWalkUp(_, _, _, _)
\* the while loop of CSharpParser.get_docstring: // comments on directly
\* preceding rows are prepended
CsWalkUp(rows, current_node, prev_line, docstring_lines) ==
    IF IsComment(rows, current_node) /\ current_node = prev_line - 1
    THEN CsWalkUp(rows, PrevSibling(rows, current_node), prev_line - 1,
                  <<NodeText(rows, current_node)>> \o docstring_lines)
    ELSE docstring_lines

\* CSharpParser.get_docstring
CsGetDocstring(rows, s) ==
    LET current_node == PrevSibling(rows, s)
    IN  IF ~IsComment(rows, current_node) THEN NoDoc
        ELSE LET docstring_lines ==
                     CsWalkUp(rows, PrevSibling(rows, current_node), current_node,
                              <<NodeText(rows, current_node)>>)
             IN  DocstringModel(docstring_lines, s - Len(docstring_lines))

\* CSharpParser.extract_function_context
CsExtractFunctionContext(rows, s) ==
    FunctionContextModel(s, CsGetDocstring(rows, s))

PYTHON == "python"

CSHARP == "csharp"

\* the function contexts of every function of the file
AllFunctionContexts(language, content) ==
    LET rows == SplitRows(content)
    IN  IF language = PYTHON
        THEN {PyExtractFunctionContext(rows, s) : s \in FunctionRows(rows, "d")}
        ELSE {CsExtractFunctionContext(rows, s) : s \in FunctionRows(rows, "m")}

\* the orders in which a set can be iterated
Orderings(S) ==
    {q \in [1..Cardinality(S) -> S] : \A i, j \in 1..Cardinality(S) : q[i] = q[j] => i = j}

\* ParserBase.parse: the nodes that pass the include and ignore patterns
\* (any subset, by the choice of patterns) are put in a set, and the
\* contexts are emitted in the set's iteration order
ParseResults(language, content) ==
    UNION {Orderings(S) : S \in SUBSET AllFunctionContexts(language, content)}

-----------------------------------------------------------------------------
(* formatter/python_formatters.py, formatter/csharp_formatters.py          *)

INDENT_SPACES == 4

COMMENT_START == <<"/", "/", "/", " ">>

PEP == "PEP"

NUMPY == "numpy"

XML == "xml"

\* lines = [line + "\n" for line in lines]
AddNewlines(ls) == [i \in 1..Len(ls) |-> Append(ls[i], "\n")]

\* one f-string per parameter (name stands for the whole text of the line)
ParamLines(params, prefix) == [i \in 1..Len(params) |-> prefix \o params[i]]

\* PythonPepFormatter.get_formatted_docstring, the lines
PepLines(tv) ==
    AddNewlines(
        <<Q3, tv.summary, <<>>>>
        \o (IF tv.parameters # <<>>
            THEN <<<<"A">>>> \o ParamLines(tv.parameters, Spaces(4)) ELSE <<>>)
        \o (IF tv.return_description # <<>>
            THEN <<<<>>, <<"R">>, Spaces(4) \o tv.return_description>> ELSE <<>>)
        \o <<Q3>>)

\* PythonNumpyFormatter.get_formatted_docstring, the lines
NumpyLines(tv) ==
    AddNewlines(
        <<Q3, tv.summary, <<>>, <<"P">>, <<"-">>>>
        \o (IF tv.parameters # <<>>
            THEN [i \in 1..(2 * Len(tv.parameters)) |->
                    IF i % 2 = 1 THEN tv.parameters[(i + 1) \div 2]
                    ELSE Spaces(2) \o tv.parameters[i \div 2]]
            ELSE <<>>)
        \o <<<<>>>>
        \o (IF tv.return_description # <<>>
            THEN <<<<"R">>, <<"-">>, tv.return_description, <<>>>> ELSE <<>>)
        \o <<<<"E">>, <<"-">>, <<>>, Q3>>)

RECURSIVE RstripWs(_)
RstripWs(t) ==
    IF t # <<>> /\ t[Len(t)] \in {" ", "\n"} THEN RstripWs(SubSeq(t, 1, Len(t) - 1)) ELSE t

RECURSIVE LstripWs(_)
LstripWs(t) == IF t # <<>> /\ Head(t) \in {" ", "\n"} THEN LstripWs(Tail(t)) ELSE t

\* str.strip()
Strip(t) == LstripWs(RstripWs(t))

\* CSharpXmlFormatter.get_formatted_docstring, the lines
XmlLines(tv) ==
    AddNewlines(
        <<COMMENT_START \o <<"<">>, COMMENT_START \o Strip(tv.summary),
          COMMENT_START \o <<">">>>>
        \o ParamLines(tv.parameters, COMMENT_START)
        \o (IF tv.return_description # <<>>
            THEN <<COMMENT_START \o tv.return_description>> ELSE <<>>))

\* the formatter raises ValueError: the signature row cannot be read
FormatRaises(content, func_context) ==
    get_line_text_offset_spaces(content, func_context.start_line) < 0

\* a renderer that puts the body literal at the signature's own indentation
PyDocstringModelNoIndent(lines, func_context, content) ==
    FormattedDocstringModel(
        func_context.start_line + 1, lines,
        get_line_text_offset_spaces(content, func_context.start_line),
        BELOW)

\* _get_docstring_model (python_formatters.py), when it does not raise
PyDocstringModel(lines, func_context, content) ==
    FormattedDocstringModel(
        func_context.start_line + 1, lines,
        get_line_text_offset_spaces(content, func_context.start_line) + INDENT_SPACES,
        BELOW)

\* CSharpXmlFormatter.get_formatted_docstring, when it does not raise
CsDocstringModel(lines, func_context, content) ==
    FormattedDocstringModel(
        func_context.start_line, lines,
        get_line_text_offset_spaces(content, func_context.start_line),
        ABOVE)

\* FormatterFactory.get_formatter(style, language).get_formatted_docstring
get_formatted_docstring(style, content, func_context, tv) ==
    IF style = PEP THEN PyDocstringModel(PepLines(tv), func_context, content)
    ELSE IF style = NUMPY THEN PyDocstringModel(NumpyLines(tv), func_context, content)
    ELSE CsDocstringModel(XmlLines(tv), func_context, content)

\* the styles FormatterFactory accepts for a language
StylesOf(language) == IF language = PYTHON THEN {PEP, NUMPY} ELSE {XML}

-----------------------------------------------------------------------------
(* core/pipeline.py: DocumentationPipeline.commit, the sweep over the      *)
(* in-memory lines                                                         *)

\* the number of docs[1..n] that sort at or before key k
CountLE(docs, k) ==
    Cardinality({i \in 1..Len(docs) : docs[i].new_docstring.start_line <= k})

\* insertion of d into a sorted list, after the entries with an equal key
InsertSorted(sorted, d) ==
    LET k == CountLE(sorted, d.new_docstring.start_line)
    IN  SubSeq(sorted, 1, k) \o <<d>> \o SubSeq(sorted, k + 1, Len(sorted))

RECURSIVE SortPrefix(_, _)
SortPrefix(docs, n) ==
    IF n = 0 THEN <<>> ELSE InsertSorted(SortPrefix(docs, n - 1), docs[n])

\* a commit that applies the edits in the order given
SortDocsNot(docs) == docs

\* docs.sort(key=lambda x: x.new_docstring.start_line): ascending and stable
SortDocs(docs) == SortPrefix(docs, Len(docs))

\* indented_documentation
IndentedDocumentation(doc) ==
    [i \in 1..Len(doc.new_docstring.lines) |->
        Spaces(doc.offset_spaces) \o doc.new_docstring.lines[i]]

\* removed_lines
RemovedLines(doc) ==
    IF doc.existing_docstring # NoDoc THEN Len(doc.existing_docstring.lines) ELSE 0

\* the line at which the docstring is spliced in
AdjustedLine(doc, offset) ==
    IF doc.docstring_location = ABOVE
    THEN Max(0, doc.new_docstring.start_line + offset - RemovedLines(doc))
    ELSE doc.new_docstring.start_line + offset

\* one pass of the loop body: st = [lines, offset]
ApplyDoc(st, doc) ==
    LET start_line == doc.existing_docstring.start_line + st.offset
        end_line   == start_line + Len(doc.existing_docstring.lines)
        kept       == IF doc.existing_docstring # NoDoc
                      THEN DelSlice(st.lines, start_line, end_line)
                      ELSE st.lines
    IN  [lines  |-> InsertSlice(kept, AdjustedLine(doc, st.offset),
                                IndentedDocumentation(doc)),
         offset |-> st.offset + Len(doc.new_docstring.lines) - RemovedLines(doc)]

RECURSIVE SweepPrefix(_, _, _)
SweepPrefix(lines, docs, n) ==
    IF n = 0 THEN [lines |-> lines, offset |-> 0]
    ELSE ApplyDoc(SweepPrefix(lines, docs, n - 1), docs[n])

\* the lines commit writes back: sort, then the loop with the running offset
Sweep(lines, docs) == SweepPrefix(lines, SortDocs(docs), Len(docs)).lines

-----------------------------------------------------------------------------
(* Inputs: source files, generator results, editor results                 *)

Row(k, text) == Spaces(k) \o text \o <<"\n">>

\* the last row of a file that does not end with a line terminator
LastRow(k, text) == Spaces(k) \o text

Cat(ls) == Concat(ls)

\* def f(): / return
PyPlain == Cat(<<Row(0, <<"d">>), Row(4, <<"r">>)>>)

\* a function with a one-row docstring
PyDocOneRow == Cat(<<Row(0, <<"d">>), Row(4, Q3 \o <<"x">> \o Q3), Row(4, <<"r">>)>>)

\* a method with a docstring of three rows
PyDocRows ==
    Cat(<<Row(0, <<"k">>), Row(4, <<"d">>), Row(8, Q3), Row(8, <<"x">>), Row(8, Q3),
          Row(8, <<"r">>)>>)

\* a method without docstring
PyMethod == Cat(<<Row(0, <<"k">>), Row(4, <<"d">>), Row(8, <<"r">>)>>)

\* three functions, the last body row without terminator
PyThree ==
    Cat(<<Row(0, <<"d">>), Row(4, <<"r">>), Row(0, <<"d">>), Row(4, <<"r">>),
          Row(0, <<"d">>), LastRow(4, <<"r">>)>>)

\* a one-line function (def f(): pass) as the last row, without terminator
PyOneLiner == Cat(<<Row(0, <<"i">>), LastRow(0, <<"d">>)>>)

\* a method without comment
CsPlain == Cat(<<Row(0, <<"k">>), Row(4, <<"m">>), Row(4, <<"}">>), Row(0, <<"}">>)>>)

\* a method below two comment rows, then a method without comment
CsCommented ==
    Cat(<<Row(0, <<"/", "x">>), Row(0, <<"/", "y">>), Row(0, <<"m">>), Row(0, <<"}">>),
          Row(0, <<"m">>), LastRow(0, <<"}">>)>>)

\* a comment, an empty row, then the method
CsGap == Cat(<<Row(4, <<"/", "x">>), <<"\n">>, Row(4, <<"m">>), Row(4, <<"}">>)>>)

\* a function whose body is a docstring with a form feed in it
PyFormFeed ==
    Cat(<<Row(0, <<"d">>), Row(4, Q3 \o <<"x", "\f", "y">> \o Q3)>>)

\* a signature of two rows (def f( / ):) above a one-row docstring
PyMultiSig ==
    Cat(<<Row(0, <<"d">>), Row(0, <<")">>), Row(4, Q3 \o <<"x">> \o Q3), Row(4, <<"r">>)>>)

\* def f(): / return with "\r\n" line terminators
PyCrlf == Cat(<<<<"d", "\r", "\n">>, Spaces(4) \o <<"r", "\r", "\n">>>>)

\* the source files of the sweep's specification
CommitPool(language) ==
    IF language = PYTHON
    THEN {PyPlain, PyDocOneRow, PyDocRows, PyThree, PyOneLiner, PyCrlf, PyFormFeed,
          PyMultiSig}
    ELSE {CsPlain, CsCommented, CsGap}

\* results of the content generator
TemplatePool ==
    {DocstringTemplateModel(<<"s">>, <<>>, <<>>),
     DocstringTemplateModel(<<"s">>, <<<<"p">>>>, <<"v">>)}

\* what the user can leave in the editor's file; the editor's result is
\* tf.readlines() of it
EditorTexts == {<<>>, <<"e", "\n">>, <<"e">>, <<"e", "\n", "f">>}

EditorOutputs == {readlines(t) : t \in EditorTexts}

-----------------------------------------------------------------------------
(* Specification SpecCommit: parse, render, edit, commit on one file, with *)
(* no other process                                                        *)

MaxEdits == 1

MaxExtWrites == 1

\* SpecCommit: the state of one parse, render, edit, commit round
VARIABLES k_pc, k_style, k_file, k_funcs, k_docs, k_edits, k_out

\* Spec, the environment: the settings of the run, the files with their
\* modification counters, the holders of the advisory locks, the external
\* writer (the file it has locked, 0 for none) and the writes it has made
VARIABLES settings, disk, lockh, wfile, ext_writes

\* Spec, DocumentationPipeline.run and its callees: the position, the loop
\* indexes, the file context under construction, the locals of
\* get_approved_docstrings and its result, the locals of run and of
\* write_docstrings, self._errors, commit's lines, the presenter's output,
\* and the EDIT responses given so far
VARIABLES pc, fidx, gidx, widx, cur, pending, approved_docs, gate_result,
          file_contexts, docstring_count, count_written, errors, lines,
          printed, edits_done

\* Spec, history: the content the locator read, the content each file has
\* apart from commit's own writes, the files commit truncated, the file
\* contexts commit rewrote, the file whose approval got QUIT (0 for none),
\* and the files whose approval had finished with approved edits
VARIABLES h_parsed, h_base, h_truncated, h_rewrote, h_quit, h_collected

\* Spec, history: what the editor gave back when it was last opened
VARIABLES h_editor

\* Spec, history: the names of the edits get_approved_docstrings was given
\* at its last call, and the terminal responses given since, each with the
\* name of the edit it was given for
VARIABLES h_gate

\* SpecParse, ParserBase.parse on one syntax tree: the captures of the query,
\* the filters, the loop position of filter_functions, its result, the set
\* parse iterates, and the locals of get_qualified_name
VARIABLES p_pc, p_language, captures, include_pattern, ignore_patterns, cidx,
          matches, function_nodes, node, qualified_name, parent,
          function_contexts

kvars == <<k_pc, k_style, k_file, k_funcs, k_docs, k_edits, k_out>>

envvars == <<settings, disk, lockh, wfile, ext_writes>>

runvars == <<pc, fidx, gidx, widx, cur, pending, approved_docs, gate_result,
             file_contexts, docstring_count, count_written, errors, lines,
             printed, edits_done>>

\* the history variables but h_gate
hrest == <<h_parsed, h_base, h_truncated, h_rewrote, h_quit, h_collected, h_editor>>

hvars == <<hrest, h_gate>>

pvars == <<p_pc, p_language, captures, include_pattern, ignore_patterns, cidx,
           matches, function_nodes, node, qualified_name, parent,
           function_contexts>>

vars == <<kvars, envvars, runvars, hvars, pvars>>

\* no node: the value of node before extract_function_context is called
NoNode == [type |-> "", name |-> <<>>, scope |-> <<>>]

\* ParserBase.parse is not running
ParserIdle ==
    /\ p_pc = "idle"
    /\ p_language = PYTHON
    /\ captures = <<>>
    /\ include_pattern = <<>>
    /\ ignore_patterns = <<>>
    /\ cidx = 0
    /\ matches = <<>>
    /\ function_nodes = {}
    /\ node = NoNode
    /\ qualified_name = <<>>
    /\ parent = 0
    /\ function_contexts = <<>>

Files == {1, 2}

\* edit_text_with_editor: the lines read back from the editor's file, or an
\* exception (the editor cannot be started), which get_user_approval catches
EditorResult(raised, ls) == [raised |-> raised, lines |-> ls]

NoEditorResult == EditorResult(FALSE, <<>>)

\* no call of get_approved_docstrings yet
NoGate == [input |-> <<>>, answers |-> <<>>]

\* the user's terminal response to the edit named name
Answer(name, response) == [name |-> name, response |-> response]

\* the file context before get_file_context has built one
NoContext ==
    [file |-> 0, last_time_modified |-> 0, last_size_bytes |-> 0,
     functions |-> <<>>, docstrings |-> <<>>]

\* the result of get_approved_docstrings before its first call
NoResult == [continue |-> TRUE, is_none |-> TRUE, docstrings |-> <<>>]

\* the pipeline's variables while SpecCommit runs
PipelineIdle ==
    /\ settings = [language |-> PYTHON, style |-> PEP, force_all |-> FALSE]
    /\ disk = [f \in Files |-> [content |-> <<>>, mtime |-> 0, exists |-> TRUE]]
    /\ lockh = [f \in Files |-> "none"]
    /\ wfile = 0
    /\ ext_writes = 0
    /\ pc = "idle"
    /\ fidx = 0
    /\ gidx = 0
    /\ widx = 0
    /\ cur = NoContext
    /\ pending = <<>>
    /\ approved_docs = <<>>
    /\ gate_result = NoResult
    /\ file_contexts = <<>>
    /\ docstring_count = 0
    /\ count_written = 0
    /\ errors = <<>>
    /\ lines = <<>>
    /\ printed = <<>>
    /\ edits_done = 0
    /\ h_parsed = [f \in Files |-> <<>>]
    /\ h_base = [f \in Files |-> <<>>]
    /\ h_truncated = {}
    /\ h_rewrote = {}
    /\ h_quit = 0
    /\ h_collected = {}
    /\ h_editor = NoEditorResult
    /\ h_gate = NoGate

PipelineUnchanged == UNCHANGED <<envvars, runvars, hvars>>

\* commit is not being run on its own
CommitIdle ==
    /\ k_pc = "idle"
    /\ k_style = PEP
    /\ k_file = <<>>
    /\ k_funcs = <<>>
    /\ k_docs = <<>>
    /\ k_edits = 0
    /\ k_out = <<>>

KInit ==
    /\ ParserIdle
    /\ k_pc = "parsed"
    /\ \E language \in {PYTHON, CSHARP} :
          /\ k_style \in StylesOf(language)
          /\ k_file \in CommitPool(language)
          /\ k_funcs \in ParseResults(language, k_file)
    /\ k_docs = <<>>
    /\ k_edits = 0
    /\ k_out = <<>>
    /\ PipelineIdle

\* get_file_context, the loop over the functions: generate, format, append
KRender ==
    /\ k_pc = "parsed"
    /\ \A i \in 1..Len(k_funcs) : ~FormatRaises(k_file, k_funcs[i])
    /\ \E tvs \in [1..Len(k_funcs) -> TemplatePool] :
          k_docs' = [i \in 1..Len(k_funcs) |->
                        DocstringPresentationModel(
                            k_funcs[i],
                            get_formatted_docstring(k_style, k_file, k_funcs[i], tvs[i]))]
    /\ k_pc' = "rendered"
    /\ UNCHANGED <<k_style, k_file, k_funcs, k_edits, k_out>>
    /\ PipelineUnchanged
    /\ UNCHANGED pvars

\* an EDIT that leaves the lines as they were
EditDocKeeps(doc, out) == doc

\* Presenter.get_user_approval, response EDIT:
\* doc.new_docstring.lines = self.edit_text_with_editor(...)
EditDoc(doc, out) == [doc EXCEPT !.new_docstring.lines = out]

KEdit ==
    /\ k_pc = "rendered"
    /\ k_edits < MaxEdits
    /\ \E i \in 1..Len(k_docs), out \in EditorOutputs :
          k_docs' = [k_docs EXCEPT ![i] = EditDoc(k_docs[i], out)]
    /\ k_edits' = k_edits + 1
    /\ UNCHANGED <<k_pc, k_style, k_file, k_funcs, k_out>>
    /\ PipelineUnchanged
    /\ UNCHANGED pvars

\* commit: readlines, the sweep, truncate and writelines
CommittedContent(content, docs) == writelines(Sweep(readlines(content), docs))

KCommit ==
    /\ k_pc = "rendered"
    /\ k_out' = CommittedContent(k_file, k_docs)
    /\ k_docs' = SortDocs(k_docs)
    /\ k_pc' = "committed"
    /\ UNCHANGED <<k_style, k_file, k_funcs, k_edits>>
    /\ PipelineUnchanged
    /\ UNCHANGED pvars

KNext == KRender \/ KEdit \/ KCommit

SpecCommit == KInit /\ [][KNext]_vars

-----------------------------------------------------------------------------
(* Claims about the sweep, stated on the file commit leaves                *)

\* the rows of the file before and after commit
RowsBefore == readlines(k_file)

RowsAfter == readlines(k_out)

\* rows p .. p + Len(block) - 1 (0-based) of rows are the block
BlockAt(rows, p, block) ==
    /\ p >= 0
    /\ p + Len(block) <= Len(rows)
    /\ \A m \in 1..Len(block) : rows[p + m] = block[m]

Terminated(t) == t # <<>> /\ t[Len(t)] = "\n"

\* every inserted line and every row of the file ends with "\n"
AllTerminated ==
    /\ \A i \in 1..Len(k_docs) : \A m \in 1..Len(k_docs[i].new_docstring.lines) :
          Terminated(k_docs[i].new_docstring.lines[m])
    /\ \A r \in 1..Len(RowsBefore) : Terminated(RowsBefore[r])

NoExisting == \A i \in 1..Len(k_docs) : k_docs[i].existing_docstring = NoDoc

\* C2: with no existing docstring, the block of the i-th edit in ascending
\* start_line order begins at row start_line_i + sum(len(lines_j) for j < i)
\* of the committed file.
C2_OffsetMonotonicity ==
    (k_pc = "committed" /\ NoExisting) =>
        \A i \in 1..Len(k_docs) :
            BlockAt(RowsAfter,
                    k_docs[i].new_docstring.start_line + SumLen(k_docs, i - 1),
                    IndentedDocumentation(k_docs[i]))

\* C3: one edit, location ABOVE, an existing docstring of R rows at
\* start_line - R, new content of M lines: exactly those R rows are deleted,
\* the new content begins at row max(0, start_line - R), the signature row
\* follows the new block, and the file has M - R rows more than before.
C3_AboveShift ==
    (/\ k_pc = "committed"
     /\ Len(k_docs) = 1
     /\ k_docs[1].docstring_location = ABOVE
     /\ k_docs[1].existing_docstring # NoDoc
     /\ k_docs[1].existing_docstring.start_line
            = k_docs[1].new_docstring.start_line - Len(k_docs[1].existing_docstring.lines))
    => LET s == k_docs[1].new_docstring.start_line
           R == Len(k_docs[1].existing_docstring.lines)
           M == Len(k_docs[1].new_docstring.lines)
           p == Max(0, s - R)
       IN  /\ Len(RowsAfter) = Len(RowsBefore) + M - R
           /\ SubSeq(RowsAfter, 1, p) = SubSeq(RowsBefore, 1, p)
           /\ BlockAt(RowsAfter, p, IndentedDocumentation(k_docs[1]))
           /\ SubSeq(RowsAfter, p + M + 1, Len(RowsAfter))
                 = SubSeq(RowsBefore, s + 1, Len(RowsBefore))

\* the indentation a style adds to that of the signature row
StyleConstant(style) == IF style \in {PEP, NUMPY} THEN INDENT_SPACES ELSE 0

\* C5: render then commit for a single function whose signature row has k
\* leading spaces: every inserted row is the rendered line behind exactly
\* k + c spaces, and the signature row is still a row of the file, its text
\* unchanged.
C5_RoundTripIndent ==
    (k_pc = "committed" /\ Len(k_docs) = 1 /\ k_edits = 0)
    => LET s   == k_funcs[1].start_line
           sig == RowsBefore[s + 1]
           k   == LeadingSpaces(sig)
           doc == k_docs[1]
           p   == IF doc.docstring_location = ABOVE
                  THEN Max(0, s - RemovedLines(doc)) ELSE s + 1
       IN  /\ BlockAt(RowsAfter, p,
                      [m \in 1..Len(doc.new_docstring.lines) |->
                          Spaces(k + StyleConstant(k_style)) \o doc.new_docstring.lines[m]])
           /\ \E r \in 1..Len(RowsAfter) : RowsAfter[r] = sig

-----------------------------------------------------------------------------
(* Specifications Spec and SpecWriter: DocumentationPipeline.run on the     *)
(* files of a project, alone, and next to another process that takes the   *)
(* advisory lock of a file before it writes the file                       *)

\* the source files of a project
ProjectPool(language) ==
    IF language = PYTHON
    THEN {PyPlain, PyMethod,
          Cat(<<Row(0, <<"d">>), Row(4, <<"r">>), Row(0, <<"d">>), Row(4, <<"r">>)>>)}
    ELSE {CsPlain, CsCommented}

\* the result of the content generator in a run of the pipeline
RunTemplate == DocstringTemplateModel(<<"s">>, <<>>, <<>>)

\* os.stat(file_path): st_mtime, st_size
Stat(file) == [st_mtime |-> file.mtime, st_size |-> Len(file.content)]

\* a write to the file: new content, a later modification time
Written(file, content) ==
    [content |-> content, mtime |-> file.mtime + 1, exists |-> TRUE]

\* a path get_files_by_pattern lists that cannot be opened (a link to
\* nowhere): there is nothing to read and nothing to stat
Missing == <<>>

Init ==
    /\ ParserIdle
    /\ CommitIdle
    /\ \E language \in {PYTHON, CSHARP} :
          /\ \E style \in StylesOf(language), force \in BOOLEAN :
                settings = [language |-> language, style |-> style, force_all |-> force]
          /\ \E contents \in [Files -> ProjectPool(language) \cup {Missing}] :
                /\ disk = [f \in Files |-> [content |-> contents[f], mtime |-> 0,
                                             exists |-> contents[f] # Missing]]
                /\ h_base = contents
    /\ lockh = [f \in Files |-> "none"]
    /\ wfile = 0
    /\ ext_writes = 0
    /\ pc = "loop"
    /\ fidx = 1
    /\ gidx = 0
    /\ widx = 0
    /\ cur = NoContext
    /\ pending = <<>>
    /\ approved_docs = <<>>
    /\ gate_result = NoResult
    /\ file_contexts = <<>>
    /\ docstring_count = 0
    /\ count_written = 0
    /\ errors = <<>>
    /\ lines = <<>>
    /\ printed = <<>>
    /\ edits_done = 0
    /\ h_parsed = [f \in Files |-> <<>>]
    /\ h_truncated = {}
    /\ h_rewrote = {}
    /\ h_quit = 0
    /\ h_collected = {}
    /\ h_editor = NoEditorResult
    /\ h_gate = NoGate

\* ParserBase.parse with patterns that select every function: the contexts in
\* the iteration order of the set, or None when the file cannot be read
ParseAll(language, content) == Orderings(AllFunctionContexts(language, content))

\* parse on a file: OSError from the read is caught and None is returned,
\* which get_file_context treats like an empty list
ParseOutcomes(language, file) ==
    IF file.exists THEN ParseAll(language, file.content) \cup {<<>>} ELSE {<<>>}

\* run, the head of the loop over the files; get_file_context, the call of
\* the parser, which reads the file
Parse ==
    /\ pc = "loop"
    /\ fidx \in Files
    /\ \E fcs \in ParseOutcomes(settings.language, disk[fidx]) :
          cur' = [NoContext EXCEPT !.file = fidx, !.functions = fcs]
    /\ h_parsed' = [h_parsed EXCEPT ![fidx] = disk[fidx].content]
    /\ pc' = "stat"
    /\ UNCHANGED <<kvars, pvars, envvars, fidx, gidx, widx, pending, approved_docs,
                   gate_result, file_contexts, docstring_count, count_written,
                   errors, lines, printed, edits_done,
                   h_base, h_truncated, h_rewrote, h_quit, h_collected, h_editor, h_gate>>

\* os.stat on a path that cannot be opened raises FileNotFoundError
StatRaises(file) == ~file.exists

\* get_file_context: get_file_stats after the parse (its exception is not
\* caught and ends run); no functions: return
GetFileStats ==
    /\ pc = "stat"
    /\ IF StatRaises(disk[cur.file])
       THEN /\ pc' = "crashed"
            /\ UNCHANGED <<cur, gidx>>
       ELSE /\ cur' = [cur EXCEPT !.last_time_modified = Stat(disk[cur.file]).st_mtime,
                                  !.last_size_bytes = Stat(disk[cur.file]).st_size]
            /\ gidx' = 1
            /\ pc' = IF cur.functions = <<>> THEN "gate" ELSE "gen"
    /\ UNCHANGED <<kvars, pvars, envvars, fidx, widx, pending, approved_docs,
                   gate_result, file_contexts, docstring_count, count_written,
                   errors, lines, printed, edits_done, hvars>>

\* get_file_context, one pass of the loop over the functions: the generator
\* raises (the error is recorded, continue), or the formatter, which reads
\* the file again, raises ValueError (not caught: run ends), or the edit is
\* appended
Generate ==
    /\ pc = "gen"
    /\ \E raised \in BOOLEAN :
          IF raised
          THEN /\ errors' = Append(errors, "GeneratorError")
               /\ pc' = IF gidx = Len(cur.functions) THEN "gate" ELSE "gen"
               /\ gidx' = gidx + 1
               /\ cur' = cur
          ELSE IF FormatRaises(disk[cur.file].content, cur.functions[gidx])
          THEN /\ pc' = "crashed"
               /\ UNCHANGED <<errors, gidx, cur>>
          ELSE /\ cur' = [cur EXCEPT !.docstrings =
                              Append(@, DocstringPresentationModel(
                                            cur.functions[gidx],
                                            get_formatted_docstring(
                                                settings.style, disk[cur.file].content,
                                                cur.functions[gidx], RunTemplate)))]
               /\ pc' = IF gidx = Len(cur.functions) THEN "gate" ELSE "gen"
               /\ gidx' = gidx + 1
               /\ errors' = errors
    /\ UNCHANGED <<kvars, pvars, envvars, fidx, widx, pending, approved_docs,
                   gate_result, file_contexts, docstring_count, count_written,
                   lines, printed, edits_done, hvars>>

\* a run that asks for approval whatever the settings say
GateNeverBypassed(config) == FALSE

\* run: if not settings.force_all
GateBypassed(config) == config.force_all

\* run: get_approved_docstrings is called unless force_all is set
EnterGate ==
    /\ pc = "gate"
    /\ IF GateBypassed(settings)
       THEN /\ pc' = "collect"
            /\ UNCHANGED <<pending, approved_docs, cur, h_gate>>
       ELSE /\ pc' = "approve"
            /\ pending' = cur.docstrings
            /\ approved_docs' = <<>>
            /\ cur' = cur
            /\ h_gate' = [input   |-> [i \in 1..Len(cur.docstrings) |->
                                          cur.docstrings[i].qualified_name],
                          answers |-> <<>>]
    /\ UNCHANGED <<kvars, pvars, envvars, fidx, gidx, widx, gate_result, file_contexts,
                   docstring_count, count_written, errors, lines, printed,
                   edits_done, hrest>>

\* the edit docstring_models.pop() hands to the presenter
Popped == pending[Len(pending)]

Rest == SubSeq(pending, 1, Len(pending) - 1)

EditorResults ==
    {EditorResult(FALSE, out) : out \in EditorOutputs} \cup {EditorResult(TRUE, <<>>)}

\* response EDIT: the lines are replaced by the editor's result (left as
\* they are when the editor raised) and the same edit is presented again
RespondEdit ==
    /\ pc = "approve"
    /\ pending # <<>>
    /\ edits_done < MaxEdits
    /\ \E r \in EditorResults :
          /\ pending' = Append(Rest, IF r.raised THEN Popped
                                                 ELSE EditDoc(Popped, r.lines))
          /\ h_editor' = r
    /\ edits_done' = edits_done + 1
    /\ UNCHANGED <<kvars, pvars, envvars, pc, fidx, gidx, widx, cur, approved_docs,
                   gate_result, file_contexts, docstring_count, count_written,
                   errors, lines, printed, h_parsed, h_base, h_truncated,
                   h_rewrote, h_quit, h_collected, h_gate>>

\* response ACCEPT: approved_docs.append(doc)
RespondAccept ==
    /\ pc = "approve"
    /\ pending # <<>>
    /\ approved_docs' = Append(approved_docs, Popped)
    /\ pending' = Rest
    /\ h_gate' = [h_gate EXCEPT !.answers = Append(@, Answer(Popped.qualified_name, "ACCEPT"))]
    /\ UNCHANGED <<kvars, pvars, envvars, pc, fidx, gidx, widx, cur,
                   gate_result, file_contexts, docstring_count, count_written,
                   errors, lines, printed, edits_done, hrest>>

\* a gate for which SKIP is an approval
SkipIsAccept(approved, doc) == Append(approved, doc)

\* response SKIP: continue; the approved edits stay as they are
Skipped(approved, doc) == approved

RespondSkip ==
    /\ pc = "approve"
    /\ pending # <<>>
    /\ pending' = Rest
    /\ approved_docs' = Skipped(approved_docs, Popped)
    /\ h_gate' = [h_gate EXCEPT !.answers = Append(@, Answer(Popped.qualified_name, "SKIP"))]
    /\ UNCHANGED <<kvars, pvars, envvars, pc, fidx, gidx, widx, cur,
                   gate_result, file_contexts, docstring_count, count_written,
                   errors, lines, printed, edits_done, hrest>>

\* a gate that hands back on QUIT what had been approved
QuitResultKeepsApproved(approved) ==
    [continue |-> FALSE, is_none |-> FALSE, docstrings |-> approved]

\* get_approved_docstrings on QUIT: return False, None
QuitResult(approved) == [continue |-> FALSE, is_none |-> TRUE, docstrings |-> <<>>]

\* get_approved_docstrings when the list is exhausted: return True, approved_docs
EndResult(approved) == [continue |-> TRUE, is_none |-> FALSE, docstrings |-> approved]

\* a run that keeps on QUIT the file contexts it had collected
QuitKeepsFileContexts(fcs) == fcs

\* run on should_continue = False: file_contexts = []
QuitFileContexts(fcs) == <<>>

\* run after get_approved_docstrings returned r
AfterGate(r) ==
    /\ gate_result' = r
    /\ cur' = [cur EXCEPT !.docstrings = r.docstrings]
    /\ IF r.continue
       THEN /\ pc' = "collect"
            /\ file_contexts' = file_contexts
       ELSE /\ pc' = "after"
            /\ file_contexts' = QuitFileContexts(file_contexts)

\* response QUIT
RespondQuit ==
    /\ pc = "approve"
    /\ pending # <<>>
    /\ pending' = Rest
    /\ AfterGate(QuitResult(approved_docs))
    /\ h_quit' = cur.file
    /\ h_gate' = [h_gate EXCEPT !.answers = Append(@, Answer(Popped.qualified_name, "QUIT"))]
    /\ UNCHANGED <<kvars, pvars, envvars, fidx, gidx, widx, approved_docs,
                   docstring_count, count_written, errors, lines, printed,
                   edits_done, h_parsed, h_base, h_truncated, h_rewrote, h_collected,
                   h_editor>>

\* the while loop of get_approved_docstrings ends
GateReturns ==
    /\ pc = "approve"
    /\ pending = <<>>
    /\ AfterGate(EndResult(approved_docs))
    /\ UNCHANGED <<kvars, pvars, envvars, fidx, gidx, widx, pending, approved_docs,
                   docstring_count, count_written, errors, lines, printed,
                   edits_done, hvars>>

\* run: a file context with docstrings is kept and counted; the next file
Collect ==
    /\ pc = "collect"
    /\ IF cur.docstrings # <<>>
       THEN /\ file_contexts' = Append(file_contexts, cur)
            /\ docstring_count' = docstring_count + Len(cur.docstrings)
            /\ h_collected' = h_collected \cup {cur.file}
       ELSE UNCHANGED <<file_contexts, docstring_count, h_collected>>
    /\ fidx' = fidx + 1
    /\ pc' = IF fidx = Cardinality(Files) THEN "after" ELSE "loop"
    /\ UNCHANGED <<kvars, pvars, envvars, gidx, widx, cur, pending, approved_docs,
                   gate_result, count_written, errors, lines, printed, edits_done,
                   h_parsed, h_base, h_truncated, h_rewrote, h_quit, h_editor, h_gate>>

Success(written, total) == [kind |-> "success", error |-> "", written |-> written, total |-> total]

Error(e) == [kind |-> "error", error |-> e, written |-> 0, total |-> 0]

\* run after the loop: nothing to write, or write_docstrings
AfterLoop ==
    /\ pc = "after"
    /\ IF file_contexts = <<>>
       THEN /\ printed' = Append(printed, Success(0, 0))
            /\ pc' = "done"
            /\ UNCHANGED <<widx, count_written>>
       ELSE /\ pc' = "write"
            /\ widx' = 1
            /\ count_written' = 0
            /\ printed' = printed
    /\ UNCHANGED <<kvars, pvars, envvars, fidx, gidx, cur, pending, approved_docs,
                   gate_result, file_contexts, docstring_count, errors, lines,
                   edits_done, hvars>>

\* the file context write_docstrings is at, and its file
CurrentContext == file_contexts[widx]

cf == CurrentContext.file

\* a commit that opens the file and takes no lock
NotLocked(holder) == "none"

\* portalocker.lock(f, LOCK_EX): the holder of the file's lock afterwards
Locked(holder) == holder

\* a with block that leaves the lock with its holder
ClosedKeepsLock(holder) == holder

\* the with block closes f on every way out; closing the file drops the
\* lock taken on it
Closed(holder) == "none"

\* a guard that needs both the time and the size to differ
ChangedBoth(st, orig_mtime, orig_size) ==
    st.st_mtime # orig_mtime /\ st.st_size # orig_size

\* commit, the comparison of the guard
ChangedExternally(st, orig_mtime, orig_size) ==
    st.st_mtime # orig_mtime \/ st.st_size # orig_size

\* portalocker.unlock(f) after the with block has closed f: f.fileno()
\* raises ValueError on a closed file
UnlockRaises(closed) == closed

\* a write_docstrings that stops at the first commit that raises
RaiseStops(e) ==
    /\ errors' = Append(errors, e)
    /\ lines' = <<>>
    /\ widx' = Len(file_contexts) + 1
    /\ pc' = "write"

\* write_docstrings, except Exception as e: errors.append(e), the next file
Raise(e) ==
    /\ errors' = Append(errors, e)
    /\ lines' = <<>>
    /\ widx' = widx + 1
    /\ pc' = "write"

\* write_docstrings calls commit: open(file_path, "r+"), portalocker.lock,
\* which blocks while another process holds the lock
CLock ==
    /\ pc = "write"
    /\ widx <= Len(file_contexts)
    /\ lockh[cf] = "none"
    /\ lockh' = [lockh EXCEPT ![cf] = Locked("pipeline")]
    /\ pc' = "c_stat"
    /\ UNCHANGED <<kvars, pvars, settings, disk, wfile, ext_writes, fidx, gidx, widx,
                   cur, pending, approved_docs, gate_result, file_contexts,
                   docstring_count, count_written, errors, lines, printed,
                   edits_done, hvars>>

\* commit: os.stat and the guard; on a mismatch RuntimeError leaves the with
\* block, which closes the file and so drops the lock
CStat ==
    /\ pc = "c_stat"
    /\ IF ChangedExternally(Stat(disk[cf]), CurrentContext.last_time_modified,
                            CurrentContext.last_size_bytes)
       THEN /\ Raise("RuntimeError")
            /\ lockh' = [lockh EXCEPT ![cf] = Closed(@)]
       ELSE /\ pc' = "c_read"
            /\ UNCHANGED <<errors, lines, widx, lockh>>
    /\ UNCHANGED <<kvars, pvars, settings, disk, wfile, ext_writes, fidx, gidx,
                   cur, pending, approved_docs, gate_result, file_contexts,
                   docstring_count, count_written, printed, edits_done, hvars>>

\* commit: f.readlines(), docs.sort, the loop over the docs
CRead ==
    /\ pc = "c_read"
    /\ lines' = Sweep(readlines(disk[cf].content), CurrentContext.docstrings)
    /\ pc' = "c_trunc"
    /\ UNCHANGED <<kvars, pvars, envvars, fidx, gidx, widx, cur, pending, approved_docs,
                   gate_result, file_contexts, docstring_count, count_written,
                   errors, printed, edits_done, hvars>>

\* commit: f.readlines() or the loop raises (the file is not UTF-8, an edit
\* is malformed); the exception leaves the with block
CReadFails ==
    /\ pc = "c_read"
    /\ lockh' = [lockh EXCEPT ![cf] = Closed(@)]
    /\ Raise("UnicodeDecodeError")
    /\ UNCHANGED <<kvars, pvars, settings, disk, wfile, ext_writes, fidx, gidx,
                   cur, pending, approved_docs, gate_result, file_contexts,
                   docstring_count, count_written, printed, edits_done, hvars>>

\* commit: f.seek(0), f.truncate()
CTruncate ==
    /\ pc = "c_trunc"
    /\ disk' = [disk EXCEPT ![cf] = Written(@, <<>>)]
    /\ h_truncated' = h_truncated \cup {cf}
    /\ pc' = "c_write"
    /\ UNCHANGED <<kvars, pvars, settings, lockh, wfile, ext_writes, fidx, gidx, widx,
                   cur, pending, approved_docs, gate_result, file_contexts,
                   docstring_count, count_written, errors, lines, printed,
                   edits_done, h_parsed, h_base, h_rewrote, h_quit, h_collected,
                   h_editor, h_gate>>

\* commit: f.writelines(lines) and the flush when the with block closes f:
\* all lines reach the file,
CWriteAll ==
    /\ pc = "c_write"
    /\ disk' = [disk EXCEPT ![cf] = Written(@, writelines(lines))]
    /\ h_rewrote' = h_rewrote \cup {cf}
    /\ pc' = "c_close"
    /\ UNCHANGED <<kvars, pvars, settings, lockh, wfile, ext_writes, fidx, gidx, widx,
                   cur, pending, approved_docs, gate_result, file_contexts,
                   docstring_count, count_written, errors, lines, printed,
                   edits_done, h_parsed, h_base, h_truncated, h_quit, h_collected,
                   h_editor, h_gate>>

\* or the write fails (OSError) with no line or with all lines but the last
\* in the file; the file is closed
CWriteFails ==
    /\ pc = "c_write"
    /\ \E n \in {0, Len(lines) - 1} :
          disk' = [disk EXCEPT ![cf] = Written(@, writelines(SubSeq(lines, 1, n)))]
    /\ lockh' = [lockh EXCEPT ![cf] = Closed(@)]
    /\ Raise("OSError")
    /\ UNCHANGED <<kvars, pvars, settings, wfile, ext_writes, fidx, gidx,
                   cur, pending, approved_docs, gate_result, file_contexts,
                   docstring_count, count_written, printed, edits_done, hvars>>

\* commit: the with block closes f, which drops the lock, and then
\* portalocker.unlock(f); write_docstrings: count_written += len(docstrings)
\* when commit returned, errors.append(e) when it raised
CUnlock ==
    /\ pc = "c_close"
    /\ lockh' = [lockh EXCEPT ![cf] = Closed(@)]
    /\ IF UnlockRaises(TRUE)
       THEN /\ Raise("ValueError")
            /\ count_written' = count_written
       ELSE /\ count_written' = count_written + Len(CurrentContext.docstrings)
            /\ lines' = <<>>
            /\ widx' = widx + 1
            /\ pc' = "write"
            /\ errors' = errors
    /\ UNCHANGED <<kvars, pvars, settings, disk, wfile, ext_writes, fidx, gidx,
                   cur, pending, approved_docs, gate_result, file_contexts,
                   docstring_count, printed, edits_done, hvars>>

\* run: the errors are printed, then the summary
Report ==
    /\ pc = "write"
    /\ widx > Len(file_contexts)
    /\ printed' = [i \in 1..Len(errors) |-> Error(errors[i])]
                      \o <<Success(count_written, docstring_count)>>
    /\ pc' = "done"
    /\ UNCHANGED <<kvars, pvars, envvars, fidx, gidx, widx, cur, pending, approved_docs,
                   gate_result, file_contexts, docstring_count, count_written,
                   errors, lines, edits_done, hvars>>

\* another process takes the exclusive lock of a file before it writes
WriterLock ==
    /\ wfile = 0
    /\ ext_writes < MaxExtWrites
    /\ \E f \in Files :
          /\ disk[f].exists
          /\ lockh[f] = "none"
          /\ lockh' = [lockh EXCEPT ![f] = Locked("writer")]
          /\ wfile' = f
    /\ UNCHANGED <<kvars, pvars, settings, disk, ext_writes, runvars, hvars>>

\* and writes the file, then drops the lock
WriterWrite ==
    /\ wfile # 0
    /\ \E content \in ProjectPool(settings.language) :
          /\ disk' = [disk EXCEPT ![wfile] = Written(@, content)]
          /\ h_base' = [h_base EXCEPT ![wfile] = content]
    /\ lockh' = [lockh EXCEPT ![wfile] = "none"]
    /\ wfile' = 0
    /\ ext_writes' = ext_writes + 1
    /\ UNCHANGED <<kvars, pvars, settings, runvars, h_parsed, h_truncated, h_rewrote,
                   h_quit, h_collected, h_editor, h_gate>>

\* the interactive or unattended run, with no other process
Next ==
    \/ Parse
    \/ GetFileStats
    \/ Generate
    \/ EnterGate
    \/ RespondEdit
    \/ RespondAccept
    \/ RespondSkip
    \/ RespondQuit
    \/ GateReturns
    \/ Collect
    \/ AfterLoop
    \/ CLock
    \/ CStat
    \/ CRead
    \/ CReadFails
    \/ CTruncate
    \/ CWriteAll
    \/ CWriteFails
    \/ CUnlock
    \/ Report

Spec == Init /\ [][Next]_vars

\* the unattended run (force_all), next to the other process
InitWriter == Init /\ settings.force_all

NextWriter ==
    \/ Parse
    \/ GetFileStats
    \/ Generate
    \/ EnterGate
    \/ Collect
    \/ AfterLoop
    \/ CLock
    \/ CStat
    \/ CRead
    \/ CReadFails
    \/ CTruncate
    \/ CWriteAll
    \/ CWriteFails
    \/ CUnlock
    \/ Report
    \/ WriterLock
    \/ WriterWrite

SpecWriter == InitWriter /\ [][NextWriter]_vars

-----------------------------------------------------------------------------
(* Claims about the run                                                    *)

CommitHoldsLock == {"c_stat", "c_read", "c_trunc", "c_write"}

InCommit == CommitHoldsLock \cup {"c_close"}

\* the guard of the file context and the file's time and size differ
GuardMismatch ==
    \/ disk[cf].mtime # CurrentContext.last_time_modified
    \/ Len(disk[cf].content) # CurrentContext.last_size_bytes

\* C1: when commit finds the file's time or size different from the guard,
\* it raises (the RuntimeError is recorded for the file) with no line read,
\* deleted or inserted, and that step leaves every file as the other
\* process left it: the file was not truncated or written by commit
C1_GuardMismatchAborts ==
    [][(pc = "c_stat" /\ pc' # pc /\ GuardMismatch) =>
          (/\ errors' = Append(errors, "RuntimeError")
           /\ lines = <<>> /\ lines' = <<>>
           /\ disk' = disk
           /\ disk[cf].content = h_base[cf]
           /\ cf \notin h_truncated'
           /\ pc' = "write"
           /\ widx' = widx + 1)]_vars

C1_Witness ==
    /\ pc = "done"
    /\ \E i \in 1..Len(errors) : errors[i] = "RuntimeError"
    /\ \E i \in 1..Len(file_contexts) :
          /\ file_contexts[i].file \notin h_truncated
          /\ disk[file_contexts[i].file].content = h_base[file_contexts[i].file]
          /\ disk[file_contexts[i].file].mtime # file_contexts[i].last_time_modified

\* C4: whenever commit fails (a step of commit records an error), the file
\* has afterwards the content it would have had without the commit
C4_NoPartialWrite ==
    [][(pc \in InCommit /\ errors' # errors) => disk'[cf].content = h_base[cf]]_vars

\* C6: once QUIT was answered, get_approved_docstrings has returned
\* continue = False and None (no approved edit), whatever had been accepted
\* before, and the file of that batch is neither collected for writing nor
\* written
C6_QuitReturnsNothing ==
    h_quit # 0 =>
        /\ gate_result.continue = FALSE
        /\ gate_result.is_none
        /\ gate_result.docstrings = <<>>
        /\ \A i \in 1..Len(file_contexts) : file_contexts[i].file # h_quit
        /\ h_quit \notin h_truncated

C6_Witness ==
    /\ h_quit # 0
    /\ approved_docs # <<>>
    /\ pc = "done"

C8_LockHeldAcrossRewrite ==
    [][(pc \in CommitHoldsLock) =>
          (/\ lockh[cf] = "pipeline"
           /\ (pc' = pc => disk'[cf] = disk[cf]))]_vars

C8_Witness ==
    /\ pc = "c_write"
    /\ lockh[cf] = "pipeline"
    /\ wfile # 0
    /\ ext_writes < MaxExtWrites

\* C9: a commit that has passed the guard works on the content the locator
\* read: the file was not written by another process after the read
C9_StaleEditsNeverApplied ==
    pc \in {"c_read", "c_trunc"} => disk[cf].content = h_parsed[cf]

RECURSIVE RewroteEdits(_)
RewroteEdits(n) ==
    IF n = 0 THEN 0
    ELSE RewroteEdits(n - 1)
            + (IF file_contexts[n].file \in h_rewrote
               THEN Len(file_contexts[n].docstrings) ELSE 0)

\* C10: the X of the summary is the number of edits of the files commit
\* rewrote, and a commit that rewrote its file recorded no error
C10_WrittenCount ==
    pc = "done" =>
        /\ printed[Len(printed)].written = RewroteEdits(Len(file_contexts))
        /\ (h_rewrote # {} => ~ \E i \in 1..Len(errors) : errors[i] = "ValueError")

\* C11: at the end of a run every recorded error has been printed, each
\* once and in the order recorded, before the summary; a run that recorded
\* an error has not printed the summary alone
C11_ErrorsPrinted ==
    pc = "done" =>
        /\ Len(printed) = Len(errors) + 1
        /\ \A i \in 1..Len(errors) : printed[i] = Error(errors[i])
        /\ printed[Len(printed)].kind = "success"

\* C12: when the renderer cannot locate the signature line of a function,
\* the step of get_file_context for that function records one error, adds
\* no edit for it and goes on to the next function or, after the last, to
\* the approval of the file
C12_FormatErrorFunctionScoped ==
    [][(/\ pc = "gen"
        /\ FormatRaises(disk[cur.file].content, cur.functions[gidx])
        /\ (pc' # pc \/ gidx' # gidx)) =>
          (/\ Len(errors') = Len(errors) + 1
           /\ cur'.docstrings = cur.docstrings
           /\ gidx' = gidx + 1
           /\ pc' = (IF gidx = Len(cur.functions) THEN "gate" ELSE "gen"))]_vars

\* C13: a step of commit that raises records the error, counts none of the
\* file's edits and hands over to the next file context; write_docstrings
\* moves from one file context to the next only through a commit, and the
\* run is reported only after the last one
C13_CommitFailureFileScoped ==
    [][/\ (pc \in InCommit /\ errors' # errors) =>
              (/\ Len(errors') = Len(errors) + 1
               /\ count_written' = count_written
               /\ file_contexts' = file_contexts
               /\ widx' = widx + 1
               /\ pc' = "write")
       /\ (pc = "write" /\ pc' = "done") => widx > Len(file_contexts)
       /\ (pc = "write" /\ pc' # "done") => widx' = widx]_vars

C13_Witness ==
    /\ pc = "done"
    /\ Len(file_contexts) = 2
    /\ file_contexts[1].file \notin h_rewrote
    /\ file_contexts[2].file \in h_rewrote
    /\ errors[1] = "OSError"
    /\ count_written = 0

\* C14: a file the locator cannot read is skipped: the run is not ended by
\* it, and no edit of it is collected for writing
C14_UnreadableFileSkipped ==
    \A f \in Files :
        ~disk[f].exists =>
            /\ ~(pc = "crashed" /\ cur.file = f)
            /\ \A i \in 1..Len(file_contexts) : file_contexts[i].file # f

\* C15: with force_all the presenter is never asked (no approval is pending,
\* none was returned, the editor was not opened), the edits generated for a
\* file reach the list of file contexts untouched, and at the end of the
\* run commit has been called for every file context
C15_ForceAllBypassesGate ==
    [][settings.force_all =>
          (/\ pc # "approve"
           /\ pending = <<>> /\ approved_docs = <<>> /\ edits_done = 0
           /\ gate_result = NoResult
           /\ (pc = "gate" => cur' = cur)
           /\ (pc = "collect" /\ pc' # pc /\ cur.docstrings # <<>> =>
                  file_contexts' = Append(file_contexts, cur))
           /\ (pc = "c_read" /\ pc' = "c_trunc" =>
                  lines' = Sweep(readlines(disk[cf].content),
                                 file_contexts[widx].docstrings))
           /\ (pc = "done" /\ file_contexts # <<>> => widx = Len(file_contexts) + 1))]_vars

C15_Witness ==
    /\ settings.force_all
    /\ pc = "done"
    /\ Len(file_contexts) = 2
    /\ \E i \in 1..2 : Len(file_contexts[i].docstrings) = 2
    /\ \A i \in 1..2 : file_contexts[i].file \in h_truncated

\* C16: an EDIT response leaves the gate at the same edit, with its lines
\* replaced by what the editor gave back and nothing else changed, and
\* nothing is approved or returned by it; the gate drops the edit it
\* presents only on ACCEPT, SKIP or QUIT
C16_EditPromptsAgain ==
    [][pc = "approve" =>
          (/\ edits_done' # edits_done =>
                 (/\ pc' = "approve"
                  /\ Len(pending') = Len(pending)
                  /\ SubSeq(pending', 1, Len(pending) - 1) = Rest
                  /\ ~h_editor'.raised =>
                        pending'[Len(pending)] =
                            [Popped EXCEPT !.new_docstring.lines = h_editor'.lines]
                  /\ h_editor'.raised => pending'[Len(pending)] = Popped
                  /\ approved_docs' = approved_docs
                  /\ gate_result' = gate_result)
           /\ (pending' # pending /\ edits_done' = edits_done) => pending' = Rest)]_vars

C16_Witness ==
    /\ pc = "approve"
    /\ edits_done = 1
    /\ ~h_editor.raised
    /\ pending # <<>>
    /\ Popped.new_docstring.lines = h_editor.lines
    /\ Len(h_editor.lines) = 2

(***************************************************************************)
(* SpecParse: ParserBase.parse on one syntax tree.  A function node is     *)
(* its name, its type and its ancestors from node.parent up to the root,   *)
(* each ancestor with its type and the text of its name field.  Names and  *)
(* patterns are strs.                                                      *)
(***************************************************************************)
TreeNode(type, name) == [type |-> type, name |-> name]

FunctionNode(type, name, scope) == [type |-> type, name |-> name, scope |-> scope]

\* fnmatch.fnmatch on a case-sensitive file system: * matches any run of
\* characters, ? matches one, any other character matches itself
RECURSIVE fnmatch(_, _)
fnmatch(func_name, pattern) ==
    IF pattern = <<>> THEN func_name = <<>>
    ELSE IF Head(pattern) = "*"
         THEN IF fnmatch(func_name, Tail(pattern)) THEN TRUE
              ELSE func_name # <<>> /\ fnmatch(Tail(func_name), pattern)
    ELSE /\ func_name # <<>>
         /\ Head(pattern) \in {"?", Head(func_name)}
         /\ fnmatch(Tail(func_name), Tail(pattern))

\* any(fnmatch.fnmatch(func_name, pattern) for pattern in patterns)
AnyMatch(func_name, patterns) ==
    \E i \in 1..Len(patterns) : fnmatch(func_name, patterns[i])

\* a filter whose ignore patterns never match
IgnoredNever(func_name, patterns) == FALSE

\* filter_functions: the function matches an ignore pattern
Ignored(func_name, patterns) == AnyMatch(func_name, patterns)

\* filter_functions: the loop body reaches `continue`
Skips(func_name, include, ignore) ==
    IF ~AnyMatch(func_name, include) THEN TRUE
    ELSE Ignored(func_name, ignore)

\* os.path.splitext(os.path.basename(file))[0]
module_name == <<"m">>

\* f"{class_name}.{qualified_name}" if qualified_name else class_name
Qualify(class_name, name) ==
    IF name # <<>> THEN class_name \o <<".">> \o name ELSE class_name

\* get_qualified_name: the type of the ancestors whose name is prepended
ClassType(language) ==
    IF language = PYTHON THEN "class_definition" ELSE "class_declaration"

\* PythonParser.get_qualified_name leaves the loop at the module node;
\* CSharpParser.get_qualified_name walks until parent is None
Breaks(language, ancestor) == language = PYTHON /\ ancestor.type = "module"

\* CSharpParser.get_qualified_name: `if not class_name_node: continue`, for
\* a class_declaration without a name child (its name is <<>> here)
Continues(language, ancestor) ==
    /\ language = CSHARP
    /\ ancestor.type = "class_declaration"
    /\ ancestor.name = <<>>

\* syntax trees: the captures of the function query in document order
PyOuterInner ==
    <<FunctionNode("function_definition", <<"o", "u", "t">>,
                   <<TreeNode("module", <<>>)>>),
      FunctionNode("function_definition", <<"i", "n">>,
                   <<TreeNode("block", <<>>),
                     TreeNode("function_definition", <<"o", "u", "t">>),
                     TreeNode("module", <<>>)>>)>>

PyClassMethod ==
    <<FunctionNode("function_definition", <<"a", "b">>,
                   <<TreeNode("block", <<>>),
                     TreeNode("class_definition", <<"C">>),
                     TreeNode("module", <<>>)>>),
      FunctionNode("function_definition", <<"a">>,
                   <<TreeNode("module", <<>>)>>)>>

PyNestedClass ==
    <<FunctionNode("function_definition", <<"b">>,
                   <<TreeNode("block", <<>>),
                     TreeNode("class_definition", <<"D">>),
                     TreeNode("block", <<>>),
                     TreeNode("class_definition", <<"C">>),
                     TreeNode("module", <<>>)>>)>>

CsClassMethod ==
    <<FunctionNode("method_declaration", <<"a", "b">>,
                   <<TreeNode("declaration_list", <<>>),
                     TreeNode("class_declaration", <<"C">>),
                     TreeNode("compilation_unit", <<>>)>>),
      FunctionNode("method_declaration", <<"a">>,
                   <<TreeNode("declaration_list", <<>>),
                     TreeNode("class_declaration", <<"C">>),
                     TreeNode("compilation_unit", <<>>)>>)>>

CsLocalFunction ==
    <<FunctionNode("method_declaration", <<"o", "u", "t">>,
                   <<TreeNode("declaration_list", <<>>),
                     TreeNode("class_declaration", <<"C">>),
                     TreeNode("compilation_unit", <<>>)>>),
      FunctionNode("local_function_statement", <<"i", "n">>,
                   <<TreeNode("block", <<>>),
                     TreeNode("method_declaration", <<"o", "u", "t">>),
                     TreeNode("declaration_list", <<>>),
                     TreeNode("class_declaration", <<"C">>),
                     TreeNode("compilation_unit", <<>>)>>)>>

CsNestedClass ==
    <<FunctionNode("method_declaration", <<"b">>,
                   <<TreeNode("declaration_list", <<>>),
                     TreeNode("class_declaration", <<"D">>),
                     TreeNode("declaration_list", <<>>),
                     TreeNode("class_declaration", <<"C">>),
                     TreeNode("compilation_unit", <<>>)>>)>>

\* a method in a class_declaration that has no name child
CsUnnamedClass ==
    <<FunctionNode("method_declaration", <<"a">>,
                   <<TreeNode("declaration_list", <<>>),
                     TreeNode("class_declaration", <<>>),
                     TreeNode("compilation_unit", <<>>)>>)>>

TreePool(language) ==
    IF language = PYTHON THEN {PyOuterInner, PyClassMethod, PyNestedClass}
    ELSE {CsClassMethod, CsLocalFunction, CsNestedClass, CsUnnamedClass}

\* the include and ignore lists of the settings
IncludePool == {<<>>, <<<<"*">>>>, <<<<"a", "*">>>>, <<<<"o", "*">>, <<"?">>>>}

IgnorePool == {<<>>, <<<<>>>>, <<<<"*", "b">>>>, <<<<"?", "?">>, <<"a">>>>}

PInit ==
    /\ PipelineIdle
    /\ CommitIdle
    /\ p_pc = "filter"
    /\ p_language \in {PYTHON, CSHARP}
    /\ captures \in TreePool(p_language)
    /\ include_pattern \in IncludePool
    /\ ignore_patterns \in IgnorePool
    /\ cidx = 1
    /\ matches = <<>>
    /\ function_nodes = {}
    /\ node = NoNode
    /\ qualified_name = <<>>
    /\ parent = 0
    /\ function_contexts = <<>>

ParseUnchanged == UNCHANGED <<kvars, envvars, runvars, hvars>>

\* filter_functions: one iteration of the loop over the captured name nodes
FilterFunction ==
    /\ p_pc = "filter"
    /\ cidx <= Len(captures)
    /\ matches' = IF Skips(captures[cidx].name, include_pattern, ignore_patterns)
                  THEN matches
                  ELSE Append(matches, captures[cidx])
    /\ cidx' = cidx + 1
    /\ UNCHANGED <<p_pc, p_language, captures, include_pattern, ignore_patterns,
                   function_nodes, node, qualified_name, parent,
                   function_contexts>>
    /\ ParseUnchanged

\* filter_functions returns; parse puts the nodes in a set
FilterReturns ==
    /\ p_pc = "filter"
    /\ cidx > Len(captures)
    /\ function_nodes' = 1..Len(matches)
    /\ p_pc' = "extract"
    /\ UNCHANGED <<p_language, captures, include_pattern, ignore_patterns, cidx,
                   matches, node, qualified_name, parent, function_contexts>>
    /\ ParseUnchanged

\* parse takes the next node of the set; get_qualified_name starts with the
\* function's own name and node.parent
ExtractFunctionContext ==
    /\ p_pc = "extract"
    /\ \E i \in function_nodes :
          /\ node' = matches[i]
          /\ function_nodes' = function_nodes \ {i}
          /\ qualified_name' = matches[i].name
    /\ parent' = 1
    /\ p_pc' = "walk"
    /\ UNCHANGED <<p_language, captures, include_pattern, ignore_patterns, cidx,
                   matches, function_contexts>>
    /\ ParseUnchanged

\* get_qualified_name: one iteration of `while parent is not None`; on
\* `continue` the iteration ends with parent as it was
WalkParent ==
    /\ p_pc = "walk"
    /\ parent <= Len(node.scope)
    /\ ~Breaks(p_language, node.scope[parent])
    /\ IF Continues(p_language, node.scope[parent])
       THEN UNCHANGED <<qualified_name, parent>>
       ELSE /\ qualified_name' =
                  IF node.scope[parent].type = ClassType(p_language)
                  THEN Qualify(node.scope[parent].name, qualified_name)
                  ELSE qualified_name
            /\ parent' = parent + 1
    /\ UNCHANGED <<p_pc, p_language, captures, include_pattern, ignore_patterns,
                   cidx, matches, function_nodes, node, function_contexts>>
    /\ ParseUnchanged

\* get_qualified_name returns; extract_function_context prefixes the module
WalkReturns ==
    /\ p_pc = "walk"
    /\ \/ parent > Len(node.scope)
       \/ /\ parent <= Len(node.scope)
          /\ Breaks(p_language, node.scope[parent])
    /\ function_contexts' =
          Append(function_contexts,
                 [qualified_name |-> module_name \o <<".">> \o qualified_name,
                  node           |-> node])
    /\ p_pc' = "extract"
    /\ UNCHANGED <<p_language, captures, include_pattern, ignore_patterns, cidx,
                   matches, function_nodes, node, qualified_name, parent>>
    /\ ParseUnchanged

\* parse returns function_contexts
ParseReturns ==
    /\ p_pc = "extract"
    /\ function_nodes = {}
    /\ p_pc' = "parsed"
    /\ UNCHANGED <<p_language, captures, include_pattern, ignore_patterns, cidx,
                   matches, function_nodes, node, qualified_name, parent,
                   function_contexts>>
    /\ ParseUnchanged

PNext ==
    \/ FilterFunction
    \/ FilterReturns
    \/ ExtractFunctionContext
    \/ WalkParent
    \/ WalkReturns
    \/ ParseReturns

SpecParse == PInit /\ [][PNext]_vars

\* parse runs on: every statement of it that can be executed is executed
SpecParseFair == PInit /\ [][PNext]_vars /\ WF_vars(PNext)

\* the lexical scope path of a function node: the names of the enclosing
\* classes and functions, outermost first, each followed by a dot
RECURSIVE ScopePath(_)
ScopePath(scope) ==
    IF scope = <<>> THEN <<>>
    ELSE ScopePath(Tail(scope)) \o
         (IF Head(scope).type \in {"class_definition", "function_definition",
                                   "class_declaration", "method_declaration",
                                   "local_function_statement"}
          THEN Head(scope).name \o <<".">>
          ELSE <<>>)

\* C17: the qualified name of every extracted function is the module name,
\* the names of the enclosing classes and functions from the outermost to
\* the innermost, and the function's name, joined by dots
C17_QualifiedNameIsLexicalPath ==
    \A i \in 1..Len(function_contexts) :
        function_contexts[i].qualified_name =
            module_name \o <<".">> \o ScopePath(function_contexts[i].node.scope)
                        \o function_contexts[i].node.name

\* C18: filter_functions returns exactly the functions whose bare name
\* matches at least one include pattern and no ignore pattern, in capture
\* order; with an empty include list it returns nothing
C18_FilterIncludeThenExclude ==
    p_pc \notin {"idle", "filter"} =>
        /\ matches = SelectSeq(captures,
                LAMBDA n : /\ \E i \in 1..Len(include_pattern) :
                                 fnmatch(n.name, include_pattern[i])
                           /\ \A i \in 1..Len(ignore_patterns) :
                                 ~fnmatch(n.name, ignore_patterns[i]))
        /\ include_pattern = <<>> => matches = <<>>

C18_Witness ==
    /\ p_pc = "parsed"
    /\ Len(captures) = 2
    /\ Len(matches) = 1
    /\ \E i \in 1..2 :
          /\ AnyMatch(captures[i].name, include_pattern)
          /\ AnyMatch(captures[i].name, ignore_patterns)
          /\ captures[i] # matches[1]

\* the number of spaces before the text of a row
IndentOf(row) == Cardinality({i \in 1..Len(row) : \A j \in 1..i : row[j] = " "})

\* C19: when the renderer is given a function whose signature is on row s
\* of the file as it is then, with k leading spaces, the edit it returns has
\* start_line s + 1, offset k + 4 and location BELOW for the Python styles,
\* and start_line s, offset k and location ABOVE for the XML style; when the
\* file has no row s the renderer raises and returns nothing
C19_PlacementRule ==
    [][(pc = "gen" /\ errors' = errors /\ (pc' # pc \/ gidx' # gidx)) =>
          LET s    == cur.functions[gidx].start_line
              rows == readlines(disk[cur.file].content)
          IN  IF s + 1 > Len(rows)
              THEN pc' = "crashed" /\ cur' = cur
              ELSE /\ pc' # "crashed"
                   /\ Len(cur'.docstrings) = Len(cur.docstrings) + 1
                   /\ LET d == cur'.docstrings[Len(cur'.docstrings)]
                          k == IndentOf(rows[s + 1])
                      IN  IF settings.style \in {PEP, NUMPY}
                          THEN /\ d.new_docstring.start_line = s + 1
                               /\ d.offset_spaces = k + 4
                               /\ d.docstring_location = BELOW
                          ELSE /\ d.new_docstring.start_line = s
                               /\ d.offset_spaces = k
                               /\ d.docstring_location = ABOVE]_vars

C19_Witness ==
    /\ pc = "crashed"
    /\ gidx \in 1..Len(cur.functions)
    /\ cur.functions[gidx].start_line >= Len(readlines(disk[cur.file].content))
    /\ Len(file_contexts) = 1
    /\ file_contexts[1].docstrings[1].offset_spaces = 8
    /\ file_contexts[1].docstrings[1].new_docstring.start_line = 2
    /\ file_contexts[1].docstrings[1].docstring_location = BELOW

\* C20: a commit with no edit writes the file back as it was, every line
\* with the terminator it had
C20_EmptyCommitKeepsContent ==
    (k_pc = "committed" /\ k_docs = <<>>) => k_out = k_file

\* the edits in the order the sweep applies them, and the sweep's state
\* after the first n of them
SortedDocs == SortDocs(k_docs)

SweepAfter(n) == SweepPrefix(RowsBefore, SortedDocs, n)

\* the buffer after the deletion of the n-th edit's existing docstring
AfterDelete(n) ==
    LET doc == SortedDocs[n]
        st  == SweepAfter(n - 1)
    IN  IF doc.existing_docstring = NoDoc THEN st.lines
        ELSE DelSlice(st.lines, doc.existing_docstring.start_line + st.offset,
                      doc.existing_docstring.start_line + st.offset
                          + Len(doc.existing_docstring.lines))

\* C21: after each edit of the sweep the running offset is the buffer's
\* length minus the original length; the lines really deleted for the edit
\* are as many as the recorded removed count, the lines really inserted as
\* many as the new docstring has
C21_OffsetIsNetChange ==
    k_pc \in {"rendered", "committed"} =>
        \A n \in 1..Len(k_docs) :
            /\ Len(SweepAfter(n - 1).lines) - Len(AfterDelete(n))
                  = RemovedLines(SortedDocs[n])
            /\ Len(SweepAfter(n).lines) - Len(AfterDelete(n))
                  = Len(SortedDocs[n].new_docstring.lines)
            /\ SweepAfter(n).offset = Len(SweepAfter(n).lines) - Len(RowsBefore)

\* the rows (0-based) of the existing docstring of an edit
Span(doc) ==
    IF doc.existing_docstring = NoDoc THEN {}
    ELSE doc.existing_docstring.start_line ..
         (doc.existing_docstring.start_line + Len(doc.existing_docstring.lines) - 1)

SpansInsideAndDisjoint ==
    /\ \A i \in 1..Len(k_docs) : Span(k_docs[i]) \subseteq 0..(Len(RowsBefore) - 1)
    /\ \A i, j \in 1..Len(k_docs) :
          i # j => Span(k_docs[i]) \cap Span(k_docs[j]) = {}

\* the rows of seq at the positions in P, in order
RowsAt(seq, P) ==
    LET Pos(j) == CHOOSE q \in P : Cardinality({x \in P : x <= q}) = j
    IN  [j \in 1..Cardinality(P) |-> seq[Pos(j)]]

\* the original rows outside every span, and the inserted blocks in the
\* order of the sweep
OutsideRows ==
    RowsAt(RowsBefore,
           {r \in 1..Len(RowsBefore) :
               \A i \in 1..Len(k_docs) : (r - 1) \notin Span(k_docs[i])})

InsertedRows ==
    Concat([i \in 1..Len(k_docs) |-> IndentedDocumentation(SortedDocs[i])])

\* C22: when the spans of the existing docstrings lie inside the file and
\* are pairwise disjoint, the rows of the committed file are the original
\* rows outside the spans, unchanged and in their order, interleaved with
\* the rows of the inserted blocks and nothing else
C22_CommitFrame ==
    (k_pc = "committed" /\ SpansInsideAndDisjoint) =>
        \E P \in SUBSET (1..Len(RowsAfter)) :
            /\ RowsAt(RowsAfter, P) = OutsideRows
            /\ RowsAt(RowsAfter, (1..Len(RowsAfter)) \ P) = InsertedRows

\* the lists that hold the same edits as docs, in any order
Reorderings(docs) ==
    {[i \in 1..Len(docs) |-> docs[q[i]]] : q \in Orderings(1..Len(docs))}

DistinctStartLines ==
    \A i, j \in 1..Len(k_docs) :
        i # j => k_docs[i].new_docstring.start_line # k_docs[j].new_docstring.start_line

\* C23: for edits with pairwise distinct start lines, commit writes the same
\* file for every order of the list it is given, and it applies the edits in
\* ascending order of new_docstring.start_line
C23_OrderIndependent ==
    (k_pc = "rendered" /\ DistinctStartLines) =>
        \A docs \in Reorderings(k_docs) :
            /\ CommittedContent(k_file, docs) = CommittedContent(k_file, k_docs)
            /\ \A i \in 1..(Len(docs) - 1) :
                  SortDocs(docs)[i].new_docstring.start_line
                      < SortDocs(docs)[i + 1].new_docstring.start_line

C23_Witness ==
    /\ k_pc = "committed"
    /\ Len(k_docs) = 3
    /\ k_funcs[1].start_line > k_funcs[2].start_line
    /\ k_funcs[3].start_line > k_funcs[2].start_line
    /\ k_out = CommittedContent(k_file, k_docs)

\* C24: for every Python function with an existing docstring the renderer's
\* anchor, the row after the signature row, is the existing docstring's
\* first row, and the rows commit removes do not include the signature row
C24_AnchorIsDocstringRow ==
    \A i \in 1..Len(k_docs) :
        (k_docs[i].docstring_location = BELOW /\ k_docs[i].existing_docstring # NoDoc)
        => /\ k_docs[i].new_docstring.start_line
                  = k_docs[i].existing_docstring.start_line
           /\ k_docs[i].qualified_name \notin Span(k_docs[i])

\* C25: for every existing docstring the C# locator reports, the rows
\* start_line .. start_line + len(lines) - 1 of the file are the comment
\* rows it collected, in order
C25_SpanIsTheCommentBlock ==
    k_style = XML =>
        \A i \in 1..Len(k_funcs) :
            k_funcs[i].docstring # NoDoc =>
                LET rows == SplitRows(k_file)
                    doc  == k_funcs[i].docstring
                IN  \A m \in 1..Len(doc.lines) :
                        /\ doc.start_line + m - 1 \in 0..(Len(rows) - 1)
                        /\ IsComment(rows, doc.start_line + m - 1)
                        /\ NodeText(rows, doc.start_line + m - 1) = doc.lines[m]

\* C26: from the QUIT response on no error is recorded, no file context is
\* kept, no file is truncated or rewritten, also not the files whose edits
\* were approved before, and the run ends having printed only the summary
\* "0/0 docstrings written successfully"
C26_QuitWritesNoFile ==
    [][(h_quit' # 0) =>
          (/\ errors' = errors
           /\ pc' \in {"after", "done"}
           /\ file_contexts' = <<>>
           /\ disk' = disk
           /\ h_truncated' = {}
           /\ h_rewrote' = {}
           /\ pc' = "done" => printed' = <<Success(0, 0)>>)]_vars

C26_Witness ==
    /\ pc = "done"
    /\ h_quit = 2
    /\ 1 \in h_collected
    /\ docstring_count > 0
    /\ printed = <<Success(0, 0)>>

\* the position of a statement of commit in its text
CommitRank(p) ==
    CASE p = "c_stat" -> 1 [] p = "c_read" -> 2 [] p = "c_trunc" -> 3
      [] p = "c_write" -> 4 [] p = "c_close" -> 5 [] OTHER -> 0

\* C27: the pipeline holds a file's lock only while commit is running on
\* that file; every step of commit moves on in its text or leaves it; and
\* whichever way commit is left
\* (it returned, the guard did not match, reading, the sweep or the write
\* raised) the lock of the file is free for another process afterwards
C27_LockReleasedOnEveryPath ==
    [][/\ \A f \in Files : lockh[f] = "pipeline" => (pc \in InCommit /\ f = cf)
       /\ (pc \in InCommit /\ pc' # pc) =>
             \/ pc' \in InCommit /\ CommitRank(pc') > CommitRank(pc)
             \/ /\ pc' = "write"
                /\ \A f \in Files : lockh'[f] # "pipeline"
                /\ lockh'[cf] = "none"]_vars

C27_Witness ==
    /\ pc = "done"
    /\ \E i, j, k \in 1..Len(errors) :
          /\ errors[i] = "RuntimeError"
          /\ errors[j] \in {"OSError", "UnicodeDecodeError"}
    /\ \A f \in Files : lockh[f] = "none"

\* a list in reverse order
Reverse(seq) == [i \in 1..Len(seq) |-> seq[Len(seq) + 1 - i]]

\* the names of the edits answered ACCEPT, in the order of the answers
Accepted(answers) ==
    LET acc == SelectSeq(answers, LAMBDA a : a.response = "ACCEPT")
    IN  [i \in 1..Len(acc) |-> acc[i].name]

NamesOf(docs) == [i \in 1..Len(docs) |-> docs[i].qualified_name]

\* C28: while the gate runs without a QUIT, the edits answered so far are
\* the last edits of the input, each answered once, in reverse input order,
\* the edits still pending are the first edits of the input, and the
\* approved edits are exactly those answered ACCEPT; when the gate returns,
\* every edit of the input has been answered and the result is the approved
\* edits; a SKIP changes nothing but the list of pending edits
C28_GatePresentsEachOnce ==
    [][(pc = "approve" /\ h_quit = 0) =>
          (/\ NamesOf(pending) = SubSeq(h_gate.input, 1, Len(pending))
           /\ [i \in 1..Len(h_gate.answers) |-> h_gate.answers[i].name]
                 = Reverse(SubSeq(h_gate.input, Len(pending) + 1, Len(h_gate.input)))
           /\ NamesOf(approved_docs) = Accepted(h_gate.answers)
           /\ (pc' = "collect" =>
                 /\ Len(h_gate.answers) = Len(h_gate.input)
                 /\ NamesOf(cur'.docstrings) = Accepted(h_gate.answers)
                 /\ cur'.docstrings = approved_docs)
           /\ (/\ Len(h_gate'.answers) > Len(h_gate.answers)
               /\ h_gate'.answers[Len(h_gate'.answers)].response = "SKIP") =>
                 (/\ pending' = Rest
                  /\ UNCHANGED <<kvars, pvars, envvars, pc, fidx, gidx, widx, cur,
                                 approved_docs, gate_result, file_contexts,
                                 docstring_count, count_written, errors, lines,
                                 printed, edits_done>>))]_vars

C28_Witness ==
    /\ pc = "collect"
    /\ h_quit = 0
    /\ Len(h_gate.input) = 2
    /\ h_gate.answers[1].response = "SKIP"
    /\ h_gate.answers[2].response = "ACCEPT"
    /\ h_gate.answers[1].name > h_gate.answers[2].name
    /\ Len(cur.docstrings) = 1

\* C29: parse emits the function contexts in the order of the source: the
\* contexts emitted so far are those of the first selected functions, in
\* the order in which filter_functions returned them
C29_ContextsInSourceOrder ==
    \A i \in 1..Len(function_contexts) : function_contexts[i].node = matches[i]

\* C30: the walk of get_qualified_name ends for every function node
C30_WalkTerminates == (p_pc = "walk") ~> (p_pc # "walk")

====
